---- MODULE Spec2Model ----
(***************************************************************************)
(* Model of the clustering service (src/clustering-service): the attribute *)
(* and outcome encoders, the weighted-vector composition, the cosine       *)
(* similarity, the two-level Ward clustering of perform_clustering and the *)
(* /cluster endpoint that calls it.                                        *)
(*                                                                         *)
(* Floating point is modelled in fixed point: the real number r is the     *)
(* integer r * One.  Products are divided by One and quotients multiplied  *)
(* by One, each rounded to the nearest unit, as a float operation rounds   *)
(* to the nearest representable value.                                     *)
(***************************************************************************)
EXTENDS Integers, Sequences, FiniteSets, TLC

VARIABLES
    conversations,      \* the batch handed to the operation
    weights,            \* 'semantic' / 'attributes' / 'outcome' weights
    num_high_level_clusters,
    num_subclusters_per_cluster,
    pc,                 \* "ready": input given, operation not yet run; "done"
    encoded,            \* what encode_attributes returned (or raised)
    result,             \* what perform_clustering returned (or raised)
    attribute_types,    \* encode_attributes' local dict, as the last call left it
    categorical_values, \* encode_attributes' local dict, as the last call left it
    earlier,            \* an earlier call of perform_clustering: its input and result
    calls,              \* the number of calls of perform_clustering made
    outcome_value,      \* what encode_outcome returned
    response,           \* what the /cluster endpoint answered
    clustering_params   \* the clustering_params dict of the request

vars == <<conversations, weights, num_high_level_clusters,
          num_subclusters_per_cluster, pc, encoded, result,
          attribute_types, categorical_values, earlier, calls,
          outcome_value, response, clustering_params>>

----------------------------------------------------------------------------
(* Bounds of the model *)

\* fixed-point representation of 1.0
One == 1000
\* largest batch given to encode_attributes
MaxRows == 3
\* largest batch given to perform_clustering
MaxN == 3
\* largest requested cluster count
MaxK == 2

\* the 1e-8 guard of the block normalisation: the smallest positive value
Eps == 1

----------------------------------------------------------------------------
(* Fixed-point arithmetic *)

Abs(x) == IF x < 0 THEN -x ELSE x

\* a / b rounded to the nearest integer, b > 0
RDiv(a, b) == IF a >= 0 THEN (2 * a + b) \div (2 * b)
              ELSE -((2 * (-a) + b) \div (2 * b))

RECURSIVE SqrtSearch(_, _, _)
SqrtSearch(n, lo, hi) ==
    IF lo >= hi THEN lo
    ELSE LET mid == (lo + hi + 1) \div 2
         IN  IF mid * mid <= n THEN SqrtSearch(n, mid, hi)
             ELSE SqrtSearch(n, lo, mid - 1)

\* the square root of n >= 0, rounded to the nearest integer
Isqrt(n) ==
    IF n <= 0 THEN 0
    ELSE LET r == SqrtSearch(n, 0, IF n < 46340 THEN n ELSE 46340)
         IN  IF n - r * r > r THEN r + 1 ELSE r

RECURSIVE SumSeq(_)
SumSeq(s) == IF s = <<>> THEN 0 ELSE Head(s) + SumSeq(Tail(s))

\* np.linalg.norm of one row
Norm(row) == Isqrt(SumSeq([i \in 1..Len(row) |-> row[i] * row[i]]))

\* the dot product of two rows of fixed-point numbers
Dot(a, b) == RDiv(SumSeq([i \in 1..Len(a) |-> a[i] * b[i]]), One)

----------------------------------------------------------------------------
(* Attribute values: Python's None, bool, int/float and str *)

None == [tag |-> "null", b |-> FALSE, n |-> 0, s |-> ""]
Bool(x) == [tag |-> "bool", b |-> x, n |-> 0, s |-> ""]
Number(x) == [tag |-> "num", b |-> FALSE, n |-> x, s |-> ""]
Text(x) == [tag |-> "text", b |-> FALSE, n |-> 0, s |-> x]

\* the attribute keys and the texts of the model, in Python's string order
KeyOrder == <<"p", "q">>
TextOrder == <<"2", "a", "b">>

Keys == {KeyOrder[i] : i \in 1..Len(KeyOrder)}

\* sorted(list(S)) for a set S of strings listed in order
Sorted(S, order) == SelectSeq(order, LAMBDA x : x \in S)

\* conv.get('attributes', {}).get(key)
GetAttr(conv, key) ==
    IF key \in DOMAIN conv.attributes THEN conv.attributes[key] ELSE None

\* Python truthiness of a value: `1.0 if val else 0.0`
Truthy(val) ==
    CASE val.tag = "null" -> FALSE
      [] val.tag = "bool" -> val.b
      [] val.tag = "num"  -> val.n # 0
      [] val.tag = "text" -> val.s # ""

\* the texts float() parses, with their values ("2" is in none of the input
\* domains below; every other text makes float() raise)
NumericTexts == {"2"}
TextNumber(s) == IF s = "2" THEN 2 ELSE 0

\* whether float(val) raises ValueError: a text that is no number
FloatRaises(val) == val.tag = "text" /\ val.s \notin NumericTexts

\* float(val) as a fixed-point number
Float(val) ==
    CASE val.tag = "bool" -> IF val.b THEN One ELSE 0
      [] val.tag = "num"  -> val.n * One
      [] val.tag = "text" -> TextNumber(val.s) * One
      [] OTHER            -> 0

----------------------------------------------------------------------------
(* encode_attributes *)

\* the chain with int/float tested first: a bool is an int in Python, so a
\* Bool would be classified Numerical
ClassifyValueIntFirst(val) ==
    CASE val.tag \in {"bool", "num"} -> "numerical"
      [] val.tag = "text"            -> "categorical"
      [] OTHER                       -> "none"

\* the isinstance chain of the type scan: bool is tested before int/float
ClassifyValue(val) ==
    CASE val.tag = "bool" -> "boolean"
      [] val.tag = "num"  -> "numerical"
      [] val.tag = "text" -> "categorical"
      [] OTHER            -> "none"

\* a dict with no key
EmptyDict == <<>>

\* categorical_values kept from the call before instead of made anew
StaleCategoricalValues == categorical_values

\* attribute_types = {} and categorical_values = {} at the start of a call
NewAttributeTypes == EmptyDict
NewCategoricalValues == EmptyDict

\* d[key] = v on a dict d
DictSet(d, key, v) == [k \in DOMAIN d \cup {key} |-> IF k = key THEN v ELSE d[k]]

\* the inner loop of the type scan for one key, from record i on: the first
\* value that is not None sets the type (and, for a text, is added to the
\* key's categorical values), then the loop breaks
RECURSIVE ScanKey(_, _, _, _)
ScanKey(convs, key, i, st) ==
    IF i > Len(convs) THEN st
    ELSE LET val == GetAttr(convs[i], key)
         IN  IF val.tag = "null" THEN ScanKey(convs, key, i + 1, st)
             ELSE LET type == ClassifyValue(val)
                      seen == IF key \in DOMAIN st.cats THEN st.cats[key] ELSE {}
                  IN  [types |-> IF type = "none" THEN st.types
                                 ELSE DictSet(st.types, key, type),
                       cats  |-> IF type = "categorical"
                                 THEN DictSet(st.cats, key, seen \cup {val.s})
                                 ELSE st.cats]

\* the type scan over all_keys[j..]
RECURSIVE ScanKeys(_, _, _, _)
ScanKeys(convs, all_keys, j, st) ==
    IF j > Len(all_keys) THEN st
    ELSE ScanKeys(convs, all_keys, j + 1, ScanKey(convs, all_keys[j], 1, st))

\* one boolean column: 1.0 if val else 0.0
BooleanColumn(convs, key) ==
    [i \in 1..Len(convs) |-> IF Truthy(GetAttr(convs[i], key)) THEN One ELSE 0]

\* one numerical column: float(val) if val is not None else 0.0
NumericalColumn(convs, key) ==
    [i \in 1..Len(convs) |->
        LET val == GetAttr(convs[i], key)
        IN  IF val.tag = "null" THEN 0 ELSE Float(val)]

NumericalRaises(convs, key) ==
    \E i \in 1..Len(convs) : FloatRaises(GetAttr(convs[i], key))

\* one one-hot column: 1.0 if val == unique_val else 0.0
OneHotColumn(convs, key, unique_val) ==
    [i \in 1..Len(convs) |->
        IF GetAttr(convs[i], key) = Text(unique_val) THEN One ELSE 0]

\* the feature loop over all_keys[j..]: acc holds feature_vectors (columns),
\* feature_names and the error raised, if any
RECURSIVE BuildFeatures(_, _, _, _, _)
BuildFeatures(convs, all_keys, j, st, acc) ==
    IF j > Len(all_keys) \/ acc.status # "ok" THEN acc
    ELSE LET key == all_keys[j]
             attr_type == IF key \in DOMAIN st.types THEN st.types[key]
                          ELSE "categorical"
         IN  CASE attr_type = "boolean" ->
                    BuildFeatures(convs, all_keys, j + 1, st,
                        [acc EXCEPT !.columns = Append(@, BooleanColumn(convs, key)),
                                    !.names = Append(@, key)])
               [] attr_type = "numerical" ->
                    IF NumericalRaises(convs, key)
                    THEN [acc EXCEPT !.status = "ValueError"]
                    ELSE BuildFeatures(convs, all_keys, j + 1, st,
                        [acc EXCEPT !.columns = Append(@, NumericalColumn(convs, key)),
                                    !.names = Append(@, key)])
               [] OTHER ->
                    IF key \notin DOMAIN st.cats
                    THEN [acc EXCEPT !.status = "KeyError"]
                    ELSE LET unique_values == Sorted(st.cats[key], TextOrder)
                         IN  BuildFeatures(convs, all_keys, j + 1, st,
                               [acc EXCEPT
                                  !.columns = @ \o [u \in 1..Len(unique_values) |->
                                        OneHotColumn(convs, key, unique_values[u])],
                                  !.names = @ \o [u \in 1..Len(unique_values) |->
                                        key \o "=" \o unique_values[u]]])

\* StandardScaler on one column: subtract the mean, divide by the (population)
\* standard deviation, a zero deviation counting as 1
Standardize(col) ==
    LET n    == Len(col)
        mean == RDiv(SumSeq(col), n)
        var  == RDiv(SumSeq([i \in 1..n |-> (col[i] - mean) * (col[i] - mean)]),
                     n * One)
        std  == Isqrt(var * One)
        scale == IF std = 0 THEN One ELSE std
    IN  [i \in 1..n |-> RDiv((col[i] - mean) * One, scale)]

\* np.array(feature_vectors).T
Transpose(columns, n) ==
    [i \in 1..n |-> [c \in 1..Len(columns) |-> columns[c][i]]]

\* np.zeros((n, 1))
ZeroColumn(n) == [i \in 1..n |-> <<0>>]

\* encode_attributes(conversations): status "ok" with the matrix and the
\* names, or the exception raised.  raw is the matrix before the scaler;
\* types and cats are the two dicts as the call leaves them.
EncodeAttributes(convs) ==
    LET n == Len(convs)
        fresh == [types |-> NewAttributeTypes, cats |-> NewCategoricalValues]
        none == [status |-> "ok", matrix |-> <<>>, names |-> <<>>, raw |-> <<>>,
                 types |-> fresh.types, cats |-> fresh.cats]
        key_set == UNION {DOMAIN convs[i].attributes : i \in 1..n}
    IN  IF n = 0 THEN none
        ELSE IF key_set = {}
        THEN [none EXCEPT !.matrix = ZeroColumn(n), !.raw = ZeroColumn(n)]
        ELSE LET all_keys == Sorted(key_set, KeyOrder)
                 st  == ScanKeys(convs, all_keys, 1, fresh)
                 acc == BuildFeatures(convs, all_keys, 1, st,
                           [status |-> "ok", columns |-> <<>>, names |-> <<>>])
             IN  IF acc.status # "ok"
                 THEN [none EXCEPT !.status = acc.status,
                                   !.types = st.types, !.cats = st.cats]
                 ELSE IF acc.columns = <<>>
                 THEN [none EXCEPT !.matrix = ZeroColumn(n), !.raw = ZeroColumn(n),
                                   !.types = st.types, !.cats = st.cats]
                 ELSE [status |-> "ok",
                       matrix |-> Transpose([c \in 1..Len(acc.columns) |->
                                               Standardize(acc.columns[c])], n),
                       names  |-> acc.names,
                       raw    |-> Transpose(acc.columns, n),
                       types  |-> st.types,
                       cats   |-> st.cats]

----------------------------------------------------------------------------
(* encode_outcome *)

\* An outcome label is a str: the sequence of its characters.  The letters
\* of the model, each small letter at the place of its capital; every other
\* character has no case.
SmallLetters == <<"a", "c", "d", "e", "f", "i", "l", "n", "o", "r", "s", "t", "u">>
CapitalLetters == <<"A", "C", "D", "E", "F", "I", "L", "N", "O", "R", "S", "T", "U">>

\* the keys of outcome_map
Satisfied == <<"s", "a", "t", "i", "s", "f", "i", "e", "d">>
Unsatisfied == <<"u", "n">> \o Satisfied
Unclear == <<"u", "n", "c", "l", "e", "a", "r">>

\* str.lower() of one character
LowerChar(c) ==
    IF \E k \in 1..Len(CapitalLetters) : CapitalLetters[k] = c
    THEN SmallLetters[CHOOSE k \in 1..Len(CapitalLetters) : CapitalLetters[k] = c]
    ELSE c

\* a comparison of the label as given, its case kept
LowerNot(s) == s

\* outcome.lower()
Lower(s) == [i \in 1..Len(s) |-> LowerChar(s[i])]

\* outcome_map.get(outcome.lower(), 0.5)
EncodeOutcome(outcome) ==
    CASE Lower(outcome) = Satisfied   -> One
      [] Lower(outcome) = Unsatisfied -> 0
      [] Lower(outcome) = Unclear     -> One \div 2
      [] OTHER                        -> One \div 2

----------------------------------------------------------------------------
(* create_weighted_vectors and cosine_similarity *)

\* block / (np.linalg.norm(block, axis=1, keepdims=True) + 1e-8), one row
NormalizeRow(row) == [c \in 1..Len(row) |-> RDiv(row[c] * One, Norm(row) + Eps)]

\* the block taken as it is, its weight left out
ScaleRowUnweighted(w, row) == row

\* weight * block, one row
ScaleRow(w, row) == [c \in 1..Len(row) |-> RDiv(w * row[c], One)]

\* create_weighted_vectors: each block normalised per row, weighted, and the
\* three concatenated (semantic, attributes, outcome)
CreateWeightedVectors(semantic_embeddings, encoded_attributes, outcome_encodings, w) ==
    [i \in 1..Len(semantic_embeddings) |->
        LET semantic_norm == NormalizeRow(semantic_embeddings[i])
            attr_norm == IF Len(encoded_attributes[i]) > 0
                         THEN NormalizeRow(encoded_attributes[i])
                         ELSE <<0>>
            outcome_norm == NormalizeRow(outcome_encodings[i])
        IN  ScaleRow(w.semantic, semantic_norm)
              \o ScaleRow(w.attributes, attr_norm)
              \o ScaleRow(w.outcome, outcome_norm)]

\* sklearn's normalize: each row divided by its norm, a zero norm counting as 1
UnitRow(row) ==
    LET norm == IF Norm(row) = 0 THEN One ELSE Norm(row)
    IN  [c \in 1..Len(row) |-> RDiv(row[c] * One, norm)]

\* sklearn's cosine_similarity(X): the dot products of the normalised rows
CosineSimilarity(X) ==
    LET U == [i \in 1..Len(X) |-> UnitRow(X[i])]
    IN  [i \in 1..Len(X) |-> [j \in 1..Len(X) |-> Dot(U[i], U[j])]]

\* distance_matrix = 1 - similarity_matrix
DistanceMatrix(sim) ==
    [i \in 1..Len(sim) |-> [j \in 1..Len(sim) |-> One - sim[i][j]]]

----------------------------------------------------------------------------
(* scipy's linkage(method='ward') and fcluster(criterion='maxclust'), from   *)
(* their documented behaviour.  Observations are numbered 1..m, the cluster *)
(* formed by the t-th merge m + t.                                          *)

\* the pairs a < b of a set of cluster ids
Pairs(active) == {pr \in active \X active : pr[1] < pr[2]}

\* the closest pair; of several equally close, the first in index order
ClosestPair(active, D) ==
    CHOOSE pr \in Pairs(active) :
        \A qr \in Pairs(active) :
            \/ D[pr] < D[qr]
            \/ /\ D[pr] = D[qr]
               /\ (pr[1] < qr[1] \/ (pr[1] = qr[1] /\ pr[2] <= qr[2]))

\* Ward's update (Lance-Williams): the distance of cluster k to the union of
\* a and b
WardDistance(dak, dbk, dab, na, nb, nk) ==
    LET num == (na + nk) * dak * dak + (nb + nk) * dbk * dbk - nk * dab * dab
    IN  Isqrt(RDiv(IF num < 0 THEN 0 ELSE num, na + nb + nk))

Pair(a, b) == IF a < b THEN <<a, b>> ELSE <<b, a>>

\* the merges from the state st on: active clusters, their pairwise
\* distances D and sizes, and the linkage rows Z made so far
RECURSIVE WardMerge(_, _)
WardMerge(m, st) ==
    IF Cardinality(st.active) < 2 THEN st.Z
    ELSE LET pr == ClosestPair(st.active, st.D)
             a == pr[1]
             b == pr[2]
             c == m + Len(st.Z) + 1
             rest == st.active \ {a, b}
             size == [k \in rest \cup {c} |->
                        IF k = c THEN st.size[a] + st.size[b] ELSE st.size[k]]
             D == [qr \in Pairs(rest \cup {c}) |->
                     IF qr[2] = c
                     THEN WardDistance(st.D[Pair(a, qr[1])], st.D[Pair(b, qr[1])],
                                       st.D[pr], st.size[a], st.size[b],
                                       st.size[qr[1]])
                     ELSE st.D[qr]]
         IN  WardMerge(m, [active |-> rest \cup {c}, D |-> D, size |-> size,
                           Z |-> Append(st.Z, [left |-> a, right |-> b,
                                               height |-> st.D[pr],
                                               count |-> size[c]])])

\* linkage(squareform(dist, checks=False), method='ward') over the m
\* observations of the m x m matrix dist: the m - 1 merges
Linkage(dist) ==
    LET m == Len(dist)
    IN  WardMerge(m, [active |-> 1..m,
                      D |-> [pr \in Pairs(1..m) |-> dist[pr[1]][pr[2]]],
                      size |-> [k \in 1..m |-> 1],
                      Z |-> <<>>])

\* linkage raises ValueError for an empty condensed distance matrix
LinkageRaises(dist) == Len(dist) < 2

\* the observations below a node
RECURSIVE Leaves(_, _, _)
Leaves(Z, m, node) ==
    IF node <= m THEN {node}
    ELSE Leaves(Z, m, Z[node - m].left) \cup Leaves(Z, m, Z[node - m].right)

\* the largest merge height in the subtree of an internal node
RECURSIVE MaxDist(_, _, _)
MaxDist(Z, m, node) ==
    IF node <= m THEN 0
    ELSE LET r == Z[node - m]
             l == MaxDist(Z, m, r.left)
             h == MaxDist(Z, m, r.right)
             lh == IF l > h THEN l ELSE h
         IN  IF r.height > lh THEN r.height ELSE lh

\* the flat clusters of a cut at thresh, numbered as the tree is walked from
\* the root: a subtree whose heights are all <= thresh is one cluster; below
\* any other node the left subtree is numbered first, then the right one,
\* then the node's own observations.  st is [T, n]: labels given, last label.
RECURSIVE CutWalk(_, _, _, _, _)
CutWalk(Z, m, thresh, node, st) ==
    LET r == Z[node - m]
    IN  IF MaxDist(Z, m, node) <= thresh
        THEN [T |-> [o \in DOMAIN st.T \cup Leaves(Z, m, node) |->
                        IF o \in Leaves(Z, m, node) THEN st.n + 1 ELSE st.T[o]],
              n |-> st.n + 1]
        ELSE LET s1 == IF r.left > m THEN CutWalk(Z, m, thresh, r.left, st) ELSE st
                 s2 == IF r.right > m THEN CutWalk(Z, m, thresh, r.right, s1) ELSE s1
                 s3 == IF r.left <= m
                       THEN [T |-> [o \in DOMAIN s2.T \cup {r.left} |->
                                       IF o = r.left THEN s2.n + 1 ELSE s2.T[o]],
                             n |-> s2.n + 1]
                       ELSE s2
             IN  IF r.right <= m
                 THEN [T |-> [o \in DOMAIN s3.T \cup {r.right} |->
                                 IF o = r.right THEN s3.n + 1 ELSE s3.T[o]],
                       n |-> s3.n + 1]
                 ELSE s3

\* the cut of the tree at thresh: the label of each observation, and the
\* number of flat clusters
Cut(Z, m, thresh) == CutWalk(Z, m, thresh, m + Len(Z), [T |-> <<>>, n |-> 0])

\* fcluster(Z, t, criterion='maxclust'): the cut at the smallest merge height
\* that forms no more than t flat clusters
Fcluster(Z, t) ==
    LET m == Len(Z) + 1
        heights == {MaxDist(Z, m, m + i) : i \in 1..Len(Z)}
        fits == {h \in heights : Cut(Z, m, h).n <= t}
        thresh == CHOOSE h \in fits : \A g \in fits : h <= g
        T == Cut(Z, m, thresh).T
    IN  [o \in 1..m |-> T[o]]

----------------------------------------------------------------------------
(* perform_clustering *)

Min(a, b) == IF a < b THEN a ELSE b

\* np.unique(labels)
Unique(labels) == {labels[i] : i \in 1..Len(labels)}

\* the positions of the label listed from the last to the first
WhereDescending(labels, cluster_id) ==
    LET up == SelectSeq([i \in 1..Len(labels) |-> i], LAMBDA i : labels[i] = cluster_id)
    IN  [x \in 1..Len(up) |-> up[Len(up) + 1 - x]]

\* np.where(labels == cluster_id)[0]: the positions, ascending
Where(labels, cluster_id) ==
    SelectSeq([i \in 1..Len(labels) |-> i], LAMBDA i : labels[i] = cluster_id)

\* the label whose str() is key
LabelOf(labels, key) == CHOOSE l \in Unique(labels) : ToString(l) = key

\* {str(cluster_id): [conversation_ids[i] for i in cluster_indices]}
HighLevelClusters(conversation_ids, high_level_labels) ==
    [key \in {ToString(l) : l \in Unique(high_level_labels)} |->
        LET cluster_indices == Where(high_level_labels, LabelOf(high_level_labels, key))
        IN  [x \in 1..Len(cluster_indices) |-> conversation_ids[cluster_indices[x]]]]

\* distance_matrix[np.ix_(cluster_indices, cluster_indices)]
SubMatrix(distance_matrix, cluster_indices) ==
    [x \in 1..Len(cluster_indices) |-> [y \in 1..Len(cluster_indices) |->
        distance_matrix[cluster_indices[x]][cluster_indices[y]]]]

\* cluster_indices[sub_mask] replaced by the positions inside the cluster
OriginalIndicesLocal(cluster_indices, subcluster_labels, sub_id) ==
    Where(subcluster_labels, sub_id)

\* cluster_indices[sub_mask]: the original index of each member of a subcluster
OriginalIndices(cluster_indices, subcluster_labels, sub_id) ==
    LET local == Where(subcluster_labels, sub_id)
    IN  [x \in 1..Len(local) |-> cluster_indices[local[x]]]

\* the guard widened to `len(cluster_indices) <= 2`: a pair is not split
\* either
SkipsInnerUpToTwo(cluster_indices) == Len(cluster_indices) <= 2

\* len(cluster_indices) < 2: the cluster is stored as subcluster "0" and the
\* loop continues
SkipsInner(cluster_indices) == Len(cluster_indices) < 2

\* the steps of the loop body that run for one high-level cluster
InnerSteps(cluster_indices) ==
    IF SkipsInner(cluster_indices) THEN <<>>
    ELSE <<"submatrix", "linkage", "fcluster">>

\* the subclusters of one high-level cluster: "0" alone for fewer than two
\* members, else the flat clusters of a Ward clustering of its members
SubclustersOf(conversation_ids, distance_matrix, cluster_indices, n_sub) ==
    IF SkipsInner(cluster_indices)
    THEN [key \in {"0"} |->
             [x \in 1..Len(cluster_indices) |-> conversation_ids[cluster_indices[x]]]]
    ELSE LET cluster_linkage == Linkage(SubMatrix(distance_matrix, cluster_indices))
             n_subclusters == Min(n_sub, Len(cluster_indices) - 1)
             subcluster_labels == Fcluster(cluster_linkage, n_subclusters)
         IN  [key \in {ToString(l) : l \in Unique(subcluster_labels)} |->
                 LET original_indices ==
                        OriginalIndices(cluster_indices, subcluster_labels,
                                        LabelOf(subcluster_labels, key))
                 IN  [x \in 1..Len(original_indices) |->
                         conversation_ids[original_indices[x]]]]

\* {str(cluster_id): cluster_subclusters}
Subclusters(conversation_ids, distance_matrix, high_level_labels, n_sub) ==
    [key \in {ToString(l) : l \in Unique(high_level_labels)} |->
        SubclustersOf(conversation_ids, distance_matrix,
                      Where(high_level_labels, LabelOf(high_level_labels, key)),
                      n_sub)]

\* the steps run inside the loop, per high-level cluster id
InnerStepsOf(high_level_labels) ==
    [key \in {ToString(l) : l \in Unique(high_level_labels)} |->
        InnerSteps(Where(high_level_labels, LabelOf(high_level_labels, key)))]

\* the guard written `if not conversations`: only the empty batch is refused
TooFewEmptyOnly(convs) == convs = <<>>

\* len(conversations) < 2
TooFew(convs) == Len(convs) < 2

\* what a call that raised leaves: the exception, the steps that ran before
\* it, and no part of a result
Raised(error, steps) ==
    [status |-> error, steps |-> steps, high_level_clusters |-> <<>>,
     subclusters |-> <<>>, similarity_matrix |-> <<>>, high_level_labels |-> <<>>,
     inner_steps |-> <<>>]

\* perform_clustering(conversations, weights, num_high_level_clusters,
\* num_subclusters_per_cluster): the returned triple with status "ok", or the
\* exception raised.  steps lists the pipeline steps that ran;
\* high_level_labels is the top-level fcluster result and inner_steps the
\* steps run for each high-level cluster inside the subcluster loop.
PerformClustering(convs, w, n_high, n_sub) ==
    IF TooFew(convs) THEN Raised("ValueError", <<>>)
    ELSE
    LET n == Len(convs)
        conversation_ids == [i \in 1..n |-> convs[i].id]
        semantic_embeddings == [i \in 1..n |-> convs[i].semantic_embedding]
        outcomes == [i \in 1..n |-> <<EncodeOutcome(convs[i].outcome)>>]
        enc == EncodeAttributes(convs)
    IN  IF enc.status # "ok"
        THEN Raised(enc.status, <<"encode_outcome", "encode_attributes">>)
        ELSE
        LET weighted_vectors ==
                CreateWeightedVectors(semantic_embeddings, enc.matrix, outcomes, w)
            similarity_matrix == CosineSimilarity(weighted_vectors)
            distance_matrix == DistanceMatrix(similarity_matrix)
        IN  IF LinkageRaises(distance_matrix)
            THEN Raised("ValueError",
                        <<"encode_outcome", "encode_attributes",
                          "create_weighted_vectors", "cosine_similarity", "linkage">>)
            ELSE
            LET linkage_matrix == Linkage(distance_matrix)
                n_high_level == Min(n_high, n - 1)
                high_level_labels == Fcluster(linkage_matrix, n_high_level)
            IN  [status |-> "ok",
                 steps |-> <<"encode_outcome", "encode_attributes",
                             "create_weighted_vectors", "cosine_similarity",
                             "linkage", "fcluster", "subclusters">>,
                 high_level_clusters |->
                     HighLevelClusters(conversation_ids, high_level_labels),
                 subclusters |->
                     Subclusters(conversation_ids, distance_matrix,
                                 high_level_labels, n_sub),
                 similarity_matrix |-> similarity_matrix,
                 high_level_labels |-> high_level_labels,
                 inner_steps |-> InnerStepsOf(high_level_labels)]

----------------------------------------------------------------------------
(* The inputs of the model *)

\* a record of the batch
Conversation(id, embedding, attrs, outcome) ==
    [id |-> id, semantic_embedding |-> embedding, attributes |-> attrs,
     outcome |-> outcome]

DefaultWeights == [semantic |-> (65 * One) \div 100,
                   attributes |-> (25 * One) \div 100,
                   outcome |-> (10 * One) \div 100]

\* the values a key takes in the batches given to encode_attributes
ValuesOf(key) ==
    IF key = "p"
    THEN {None, Bool(TRUE), Bool(FALSE), Number(2), Text("a"), Text("b")}
    ELSE {None, Bool(TRUE)}

\* the attribute maps: each key absent or set to one of its values
AttrMaps ==
    UNION {{f \in [K -> UNION {ValuesOf(k) : k \in Keys}] :
                \A k \in K : f[k] \in ValuesOf(k)} : K \in SUBSET Keys}

IdOf(i) == "c" \o ToString(i)

\* a batch given to encode_attributes: its records' attribute maps are f[1..n]
EncodeBatch(n, f) ==
    [i \in 1..n |-> Conversation(IdOf(i), <<One, 0>>, f[i], Satisfied)]

NoEncoding == [status |-> "none", matrix |-> <<>>, names |-> <<>>, raw |-> <<>>,
               types |-> EmptyDict, cats |-> EmptyDict]
NoResult == [status |-> "none", steps |-> <<>>, high_level_clusters |-> <<>>,
             subclusters |-> <<>>, similarity_matrix |-> <<>>,
             high_level_labels |-> <<>>, inner_steps |-> <<>>]
\* no value returned yet, no response sent yet
NoValue == [status |-> "none", value |-> 0]
NoResponse == [status_code |-> 0, detail |-> "", body |-> <<>>]
\* an attribute map with no key
NoAttr == [k \in {} |-> None]

NoCall == [made |-> FALSE, conversations |-> <<>>, weights |-> DefaultWeights,
           num_high_level_clusters |-> 0, num_subclusters_per_cluster |-> 0,
           result |-> NoResult, others |-> 0]

----------------------------------------------------------------------------
(* encode_attributes applied to a batch *)

InitEncode ==
    /\ \E n \in 0..MaxRows : \E f \in [1..n -> AttrMaps] :
            conversations = EncodeBatch(n, f)
    /\ weights = DefaultWeights
    /\ num_high_level_clusters = 5
    /\ num_subclusters_per_cluster = 3
    /\ pc = "ready"
    /\ encoded = NoEncoding
    /\ result = NoResult
    /\ attribute_types = EmptyDict
    /\ categorical_values = EmptyDict
    /\ earlier = NoCall
    /\ calls = 0
    /\ outcome_value = NoValue
    /\ response = NoResponse
    /\ clustering_params = EmptyDict

encode_attributes ==
    /\ pc = "ready"
    /\ encoded' = EncodeAttributes(conversations)
    /\ attribute_types' = encoded'.types
    /\ categorical_values' = encoded'.cats
    /\ pc' = "done"
    /\ UNCHANGED <<conversations, weights, num_high_level_clusters,
                   num_subclusters_per_cluster, result, earlier, calls,
                   outcome_value, response, clustering_params>>

NextEncode == encode_attributes

SpecEncode == InitEncode /\ [][NextEncode]_vars

----------------------------------------------------------------------------
(* encode_outcome applied to a label *)

\* str.upper() of one character
UpperChar(c) ==
    IF \E k \in 1..Len(SmallLetters) : SmallLetters[k] = c
    THEN CapitalLetters[CHOOSE k \in 1..Len(SmallLetters) : SmallLetters[k] = c]
    ELSE c

\* the word with a capital at the places where mask holds
Cased(word, mask) ==
    [i \in 1..Len(word) |-> IF mask[i] THEN UpperChar(word[i]) ELSE word[i]]

\* the words whose casings are the labels given to encode_outcome: the keys
\* of outcome_map, the empty string, and strings that are none of the keys
LabelWords ==
    {Satisfied, Unsatisfied, Unclear, <<>>,
     <<"o", "t", "h", "e", "r">>,
     SubSeq(Satisfied, 1, Len(Satisfied) - 1),
     Satisfied \o <<"d">>,
     <<" ">> \o Satisfied,
     Unclear \o <<" ">>,
     <<"n", "o", "t", "_">> \o Unclear}

\* the label of the record at hand
Label == conversations[1].outcome

InitOutcome ==
    /\ \E word \in LabelWords : \E mask \in [1..Len(word) -> BOOLEAN] :
            conversations =
                <<Conversation(IdOf(1), <<One, 0>>, NoAttr, Cased(word, mask))>>
    /\ weights = DefaultWeights
    /\ num_high_level_clusters = 5
    /\ num_subclusters_per_cluster = 3
    /\ pc = "ready"
    /\ encoded = NoEncoding
    /\ result = NoResult
    /\ attribute_types = EmptyDict
    /\ categorical_values = EmptyDict
    /\ earlier = NoCall
    /\ calls = 0
    /\ outcome_value = NoValue
    /\ response = NoResponse
    /\ clustering_params = EmptyDict

encode_outcome ==
    /\ pc = "ready"
    /\ outcome_value' = [status |-> "ok", value |-> EncodeOutcome(Label)]
    /\ pc' = "done"
    /\ UNCHANGED <<conversations, weights, num_high_level_clusters,
                   num_subclusters_per_cluster, encoded, result,
                   attribute_types, categorical_values, earlier, calls,
                   response, clustering_params>>

NextOutcome == encode_outcome

SpecOutcome == InitOutcome /\ [][NextOutcome]_vars

----------------------------------------------------------------------------
(* perform_clustering applied to a batch *)

\* the records the batches given to perform_clustering are made of (ids are
\* given by position)
Records ==
    << Conversation("", <<One, 0>>, NoAttr, Unsatisfied),
       Conversation("", <<0, 0>>, NoAttr, Satisfied),
       Conversation("", <<0, 0>>, NoAttr, Unsatisfied),
       Conversation("", <<(6 * One) \div 10, (8 * One) \div 10>>,
                    [k \in {"p"} |-> Text("a")], <<"S">> \o Tail(Satisfied)),
       Conversation("", <<0, One>>, [k \in {"p"} |-> None],
                    <<"o", "t", "h", "e", "r">>) >>

\* the batch of the records numbered f[1..n]
Batch(n, f) == [i \in 1..n |-> [Records[f[i]] EXCEPT !.id = IdOf(i)]]

\* the weights (1, 0, 0)
SemanticOnly == [semantic |-> One, attributes |-> 0, outcome |-> 0]

WeightTriples ==
    {DefaultWeights,
     SemanticOnly,
     [semantic |-> 0, attributes |-> 0, outcome |-> 0]}

\* whether the input at hand is that of the earlier call kept
SameInputAsEarlier ==
    /\ earlier.conversations = conversations
    /\ earlier.weights = weights
    /\ earlier.num_high_level_clusters = num_high_level_clusters
    /\ earlier.num_subclusters_per_cluster = num_subclusters_per_cluster

Init ==
    /\ \E n \in 0..MaxN : \E f \in [1..n -> 1..Len(Records)] :
            conversations = Batch(n, f)
    /\ weights \in WeightTriples
    /\ num_high_level_clusters \in 1..MaxK
    /\ num_subclusters_per_cluster \in 1..MaxK
    /\ pc = "ready"
    /\ encoded = NoEncoding
    /\ result = NoResult
    /\ attribute_types = EmptyDict
    /\ categorical_values = EmptyDict
    /\ earlier = NoCall
    /\ calls = 0
    /\ outcome_value = NoValue
    /\ response = NoResponse
    /\ clustering_params = EmptyDict

\* one call of perform_clustering on the batch at hand; the two dicts of
\* encode_attributes are left as the call's encode_attributes made them
perform_clustering ==
    /\ pc = "ready"
    /\ result' = PerformClustering(conversations, weights,
                                   num_high_level_clusters,
                                   num_subclusters_per_cluster)
    /\ IF TooFew(conversations)
       THEN UNCHANGED <<attribute_types, categorical_values>>
       ELSE /\ attribute_types' = EncodeAttributes(conversations).types
            /\ categorical_values' = EncodeAttributes(conversations).cats
    /\ calls' = calls + 1
    /\ pc' = "done"
    /\ earlier' = IF earlier.made /\ ~SameInputAsEarlier
                  THEN [earlier EXCEPT !.others = @ + 1]
                  ELSE earlier
    /\ UNCHANGED <<conversations, weights, num_high_level_clusters,
                   num_subclusters_per_cluster, encoded, outcome_value, response,
                   clustering_params>>

Next == perform_clustering

Spec == Init /\ [][Next]_vars

----------------------------------------------------------------------------
(* Calls of perform_clustering one after the other, in one process *)

\* the most calls made in a run
MaxCalls == 3

\* the records and the batches (as record numbers) of these calls
CallRecords ==
    << Conversation("", <<One, 0>>, NoAttr, Unsatisfied),
       Conversation("", <<(6 * One) \div 10, (8 * One) \div 10>>,
                    [k \in {"p"} |-> Text("a")], Satisfied),
       Conversation("", <<0, One>>, [k \in {"p"} |-> Text("b")], Unclear) >>

CallBatches == {<<2, 3, 1>>, <<3, 2, 1>>, <<1, 2>>, <<2, 3>>, <<1, 1, 2>>}

InitCalls ==
    /\ conversations = <<>>
    /\ weights = DefaultWeights
    /\ num_high_level_clusters = 1
    /\ num_subclusters_per_cluster = 2
    /\ pc = "idle"
    /\ encoded = NoEncoding
    /\ result = NoResult
    /\ attribute_types = EmptyDict
    /\ categorical_values = EmptyDict
    /\ earlier = NoCall
    /\ calls = 0
    /\ outcome_value = NoValue
    /\ response = NoResponse
    /\ clustering_params = EmptyDict

\* the caller hands the next batch and parameters over
request ==
    /\ pc \in {"idle", "done"}
    /\ calls < MaxCalls
    /\ \E b \in CallBatches :
          conversations' = [i \in 1..Len(b) |->
                              [CallRecords[b[i]] EXCEPT !.id = IdOf(i)]]
    /\ num_high_level_clusters' \in 1..2
    /\ result' = NoResult
    /\ pc' = "ready"
    /\ UNCHANGED <<weights, num_subclusters_per_cluster, encoded,
                   attribute_types, categorical_values, earlier, calls,
                   outcome_value, response, clustering_params>>

\* the caller keeps the input and the result of the call just made
remember ==
    /\ pc = "done"
    /\ ~earlier.made
    /\ earlier' = [made |-> TRUE, conversations |-> conversations,
                   weights |-> weights,
                   num_high_level_clusters |-> num_high_level_clusters,
                   num_subclusters_per_cluster |-> num_subclusters_per_cluster,
                   result |-> result, others |-> 0]
    /\ UNCHANGED <<conversations, weights, num_high_level_clusters,
                   num_subclusters_per_cluster, pc, encoded, result,
                   attribute_types, categorical_values, calls,
                   outcome_value, response, clustering_params>>

NextCalls == request \/ perform_clustering \/ remember

SpecCalls == InitCalls /\ [][NextCalls]_vars

----------------------------------------------------------------------------
(* The /cluster endpoint: cluster_conversations *)

\* the base class of an exception class
BaseOf(cls) ==
    CASE cls = "KeyError" -> "LookupError"
      [] cls \in {"HTTPException", "ValueError", "LookupError"} -> "Exception"
      [] OTHER -> "BaseException"

\* whether an `except base` clause catches an exception of class cls
RECURSIVE Catches(_, _)
Catches(base, cls) ==
    \/ cls = base
    \/ cls # "BaseException" /\ Catches(base, BaseOf(cls))

\* HTTPException(status_code=..., detail=...)
HTTPException(status_code, detail) ==
    [class |-> "HTTPException", status_code |-> status_code, detail |-> detail]

\* the first key, in sorted order, at which the feature loop of
\* encode_attributes raises, and the text float() could not convert there
FailingKey(convs) ==
    LET all_keys == Sorted(UNION {DOMAIN convs[i].attributes : i \in 1..Len(convs)},
                           KeyOrder)
        types == EncodeAttributes(convs).types
        fails(key) == \/ key \notin DOMAIN types
                      \/ types[key] = "numerical" /\ NumericalRaises(convs, key)
    IN  all_keys[CHOOSE j \in 1..Len(all_keys) :
                    /\ fails(all_keys[j])
                    /\ \A h \in 1..(j - 1) : ~fails(all_keys[h])]

FailingText(convs, key) ==
    LET rows == {i \in 1..Len(convs) : FloatRaises(GetAttr(convs[i], key))}
    IN  GetAttr(convs[CHOOSE i \in rows : \A h \in rows : i <= h], key).s

\* the exception a call of perform_clustering that did not return raised:
\* its class, and str(e) in detail
RaisedBy(convs, res) ==
    [class |-> res.status, status_code |-> 0,
     detail |->
        CASE res.steps = <<>> -> "Need at least 2 conversations to cluster"
          [] res.status = "KeyError" -> "'" \o FailingKey(convs) \o "'"
          [] res.status = "ValueError" /\ Len(res.steps) = 2 ->
                "could not convert string to float: '"
                    \o FailingText(convs, FailingKey(convs)) \o "'"
          [] OTHER -> ""]

\* str(e): of an HTTPException "status: detail" (Starlette's __str__) or,
\* with a Starlette whose HTTPException passes no argument to Exception, the
\* empty string; of any other exception its message
StrOf(exc) ==
    IF exc.class = "HTTPException"
    THEN {ToString(exc.status_code) \o ": " \o exc.detail, ""}
    ELSE {exc.detail}

\* the two except clauses: what leaves the handler for an exception raised
\* inside the try block, str(e) being text
Handle(exc, text) ==
    IF Catches("ValueError", exc.class) THEN HTTPException(400, text)
    ELSE IF Catches("Exception", exc.class)
    THEN HTTPException(500, "Clustering failed: " \o text)
    ELSE exc

\* clustering_params.get(key, default)
GetParam(params, key, default) ==
    IF key \in DOMAIN params THEN params[key] ELSE default

\* round(avg_size, 2), as a fixed-point number
AvgClusterSize(total_convs, total_clusters) ==
    IF total_clusters > 0
    THEN RDiv(total_convs * 100, total_clusters) * (One \div 100)
    ELSE 0

\* ClusterResponse(...), answered with status 200
ClusterResponse(convs, res) ==
    [status_code |-> 200, detail |-> "",
     body |-> [high_level_clusters |-> res.high_level_clusters,
               subclusters |-> res.subclusters,
               similarity_matrix |-> res.similarity_matrix,
               cluster_stats |->
                  [total_conversations |-> Len(convs),
                   total_clusters |-> Cardinality(DOMAIN res.high_level_clusters),
                   avg_cluster_size |->
                       AvgClusterSize(Len(convs),
                           Cardinality(DOMAIN res.high_level_clusters))]]]

\* the response FastAPI sends for an HTTPException leaving the endpoint
ErrorResponse(exc) ==
    [status_code |-> exc.status_code, detail |-> exc.detail, body |-> <<>>]

\* the clustering_params of the requests: each key absent or set
ParamDicts ==
    UNION {[K -> 1..MaxK] :
              K \in SUBSET {"num_high_level_clusters", "num_subclusters_per_cluster"}}

\* the records the requests are made of (ids are given by position): a
\* record without attributes, one with a text under "p", one with None
\* under "p" and one with a number under "p"
EndpointRecords ==
    << Records[1], Records[4], Records[5],
       Conversation("", <<One, 0>>, [k \in {"p"} |-> Number(2)], Unclear) >>

InitEndpoint ==
    /\ \E n \in 0..MaxN : \E f \in [1..n -> 1..Len(EndpointRecords)] :
            conversations = [i \in 1..n |->
                                [EndpointRecords[f[i]] EXCEPT !.id = IdOf(i)]]
    /\ weights = DefaultWeights
    /\ clustering_params \in ParamDicts
    /\ num_high_level_clusters = 0
    /\ num_subclusters_per_cluster = 0
    /\ pc = "ready"
    /\ encoded = NoEncoding
    /\ result = NoResult
    /\ attribute_types = EmptyDict
    /\ categorical_values = EmptyDict
    /\ earlier = NoCall
    /\ calls = 0
    /\ outcome_value = NoValue
    /\ response = NoResponse

\* POST /cluster: the try block and its two except clauses.  With fewer than
\* two conversations the HTTPException(400) is raised inside the try block,
\* so the except clauses see it; otherwise perform_clustering is called and
\* what it raises, if anything, goes through the same clauses.
cluster_conversations ==
    /\ pc = "ready"
    /\ IF Len(conversations) < 2
       THEN /\ \E text \in StrOf(HTTPException(400,
                                "Need at least 2 conversations to cluster")) :
                   response' = ErrorResponse(
                       Handle(HTTPException(400,
                                  "Need at least 2 conversations to cluster"), text))
            /\ UNCHANGED <<num_high_level_clusters, num_subclusters_per_cluster,
                           result, attribute_types, categorical_values, calls>>
       ELSE /\ num_high_level_clusters' =
                   GetParam(clustering_params, "num_high_level_clusters", 5)
            /\ num_subclusters_per_cluster' =
                   GetParam(clustering_params, "num_subclusters_per_cluster", 3)
            /\ result' = PerformClustering(conversations, weights,
                                           num_high_level_clusters',
                                           num_subclusters_per_cluster')
            /\ attribute_types' = EncodeAttributes(conversations).types
            /\ categorical_values' = EncodeAttributes(conversations).cats
            /\ calls' = calls + 1
            /\ IF result'.status = "ok"
               THEN response' = ClusterResponse(conversations, result')
               ELSE \E text \in StrOf(RaisedBy(conversations, result')) :
                       response' = ErrorResponse(
                           Handle(RaisedBy(conversations, result'), text))
    /\ pc' = "done"
    /\ UNCHANGED <<conversations, weights, clustering_params, encoded, earlier,
                   outcome_value>>

NextEndpoint == cluster_conversations

SpecEndpoint == InitEndpoint /\ [][NextEndpoint]_vars

----------------------------------------------------------------------------
(* Properties of encode_attributes *)

\* the attribute keys present in the batch
KeySet(convs) == UNION {DOMAIN convs[i].attributes : i \in 1..Len(convs)}

\* the rows whose value for key is not None
NonNullRows(convs, key) ==
    {i \in 1..Len(convs) : GetAttr(convs[i], key).tag # "null"}

\* the first value of key, in input order, that is not None (None if none is)
FirstNonNull(convs, key) ==
    IF NonNullRows(convs, key) = {} THEN None
    ELSE GetAttr(convs[CHOOSE i \in NonNullRows(convs, key) :
                          \A j \in NonNullRows(convs, key) : i <= j], key)

\* the batch without the keys in drop
WithoutKeys(convs, drop) ==
    [i \in 1..Len(convs) |->
        [convs[i] EXCEPT !.attributes =
            [k \in DOMAIN convs[i].attributes \ drop |-> convs[i].attributes[k]]]]

\* the keys of the batch that are None wherever they appear
AllNullKeys(convs) == {k \in KeySet(convs) : NonNullRows(convs, k) = {}}

RECURSIVE Concat(_)
Concat(ss) == IF ss = <<>> THEN <<>> ELSE Head(ss) \o Concat(Tail(ss))

\* the position of name in names (0 if absent)
IndexOf(names, name) ==
    IF \E c \in 1..Len(names) : names[c] = name
    THEN CHOOSE c \in 1..Len(names) : names[c] = name
    ELSE 0

\* C4: a key that is None in every record where it appears contributes no
\* column and no name and raises nothing: the call returns what it returns
\* for the batch without that key.
C4_AllNullKeyEmptyBlock ==
    (pc = "done" /\ AllNullKeys(conversations) # {}) =>
        LET rest == EncodeAttributes(WithoutKeys(conversations,
                                                 AllNullKeys(conversations)))
        IN  rest.status = "ok" =>
                /\ encoded.status = "ok"
                /\ encoded.names = rest.names
                /\ encoded.matrix = rest.matrix

\* the texts observed for key anywhere in the batch
ObservedTexts(convs, key) ==
    {GetAttr(convs[i], key).s :
        i \in {r \in 1..Len(convs) : GetAttr(convs[r], key).tag = "text"}}

\* the names C5 states: one column key=value per distinct observed text of a
\* categorical key, by sorted value (one column, key, for any other key)
NamesPerObservedValue(convs, types) ==
    LET all_keys == Sorted(KeySet(convs), KeyOrder)
    IN  Concat([j \in 1..Len(all_keys) |->
            LET key == all_keys[j]
            IN  IF key \in DOMAIN types /\ types[key] = "categorical"
                THEN LET vals == Sorted(ObservedTexts(convs, key), TextOrder)
                     IN  [u \in 1..Len(vals) |-> key \o "=" \o vals[u]]
                ELSE <<key>>])

\* C5: a categorical key contributes exactly one column per distinct value
\* observed for it anywhere in the batch, named key=value, by sorted value.
C5_OneColumnPerObservedValue ==
    (pc = "done" /\ encoded.status = "ok" /\ KeySet(conversations) # {}) =>
        encoded.names = NamesPerObservedValue(conversations, encoded.types)

\* C6: in the returned matrix the column of a Boolean key holds 0.0 in the
\* row of every record that lacks the key or has it None.
C6_BooleanMissingIsZero ==
    (pc = "done" /\ encoded.status = "ok") =>
        \A key \in DOMAIN encoded.types :
            encoded.types[key] = "boolean" =>
                \A i \in 1..Len(conversations) :
                    GetAttr(conversations[i], key).tag = "null" =>
                        encoded.matrix[i][IndexOf(encoded.names, key)] = 0

\* the type the first value that is not None stands for
TypeOfFirst(val) ==
    CASE val.tag = "bool" -> "boolean"
      [] val.tag = "num"  -> "numerical"
      [] OTHER            -> "categorical"

\* the names and the cells of one key when its first value that is not None
\* alone decides them
NamesByFirst(key, first) ==
    IF first.tag = "text" THEN <<key \o "=" \o first.s>> ELSE <<key>>

CellByFirst(first, val) ==
    CASE first.tag = "bool" -> IF Truthy(val) THEN One ELSE 0
      [] first.tag = "num"  -> IF val.tag = "null" THEN 0 ELSE Float(val)
      [] OTHER              -> IF val = Text(first.s) THEN One ELSE 0

----------------------------------------------------------------------------
(* Properties of perform_clustering *)

\* the ids of the batch
InputIds == {conversations[i].id : i \in 1..Len(conversations)}

\* the places <<top-cluster id, subcluster id, position>> of the subclusters
\* structure
Places(subclusters) ==
    UNION {UNION {{<<t, u, x>> : x \in 1..Len(subclusters[t][u])} :
                      u \in DOMAIN subclusters[t]} : t \in DOMAIN subclusters}

\* C1: the subclusters structure of a returned result is a partition of the
\* input ids: every input id is at exactly one place of exactly one
\* (top-cluster, subcluster) list, and no other id is anywhere.
C1_SubclustersPartition ==
    (pc = "done" /\ result.status = "ok") =>
        LET sub == result.subclusters
        IN  /\ \A id \in InputIds :
                  Cardinality({pl \in Places(sub) :
                                  sub[pl[1]][pl[2]][pl[3]] = id}) = 1
            /\ \A pl \in Places(sub) : sub[pl[1]][pl[2]][pl[3]] \in InputIds

\* a returned result with a top-level cluster split into two subclusters
C1_Witness ==
    /\ pc = "done"
    /\ result.status = "ok"
    /\ \E t \in DOMAIN result.subclusters :
            Cardinality(DOMAIN result.subclusters[t]) >= 2

\* C2: a call with fewer than 2 records raises the input error before any
\* step of the pipeline has run and returns no part of a result.
C2_TooFewRejectedFirst ==
    (pc = "done" /\ Len(conversations) < 2) =>
        /\ result.status = "ValueError"
        /\ result.steps = <<>>
        /\ result.high_level_clusters = <<>>
        /\ result.subclusters = <<>>
        /\ result.similarity_matrix = <<>>

\* a finished call on a batch of one record
C2_Witness == pc = "done" /\ Len(conversations) = 1 /\ result.status = "ValueError"

\* C3: a call with 2 or more records (embeddings of one dimension, attribute
\* values None, Bool, Number or Text, outcome a string) raises nothing.
C3_OnlyTooFewRaises ==
    (pc = "done" /\ Len(conversations) >= 2) => result.status = "ok"

\* the tolerance of the diagonal, in the model's fixed point
SimTol == One \div 100

\* C7: the returned similarity matrix is symmetric and its diagonal is 1.0
\* within the tolerance.
C7_SymmetricUnitDiagonal ==
    (pc = "done" /\ result.status = "ok") =>
        LET sim == result.similarity_matrix
        IN  /\ \A i, j \in 1..Len(sim) : sim[i][j] = sim[j][i]
            /\ \A i \in 1..Len(sim) : Abs(sim[i][i] - One) <= SimTol

\* C8: the top-level pass yields exactly min(num_high_level_clusters, N - 1)
\* groups, and the pass over a top-level group of M >= 2 members exactly
\* min(num_subclusters_per_cluster, M - 1) groups.
C8_ExactGroupCount ==
    (pc = "done" /\ result.status = "ok") =>
        /\ Cardinality(DOMAIN result.high_level_clusters) =
              Min(num_high_level_clusters, Len(conversations) - 1)
        /\ \A t \in DOMAIN result.high_level_clusters :
              Len(result.high_level_clusters[t]) >= 2 =>
                  Cardinality(DOMAIN result.subclusters[t]) =
                      Min(num_subclusters_per_cluster,
                          Len(result.high_level_clusters[t]) - 1)

C11_SingletonIsSubclusterZero ==
    (pc = "done" /\ result.status = "ok") =>
        \A t \in DOMAIN result.high_level_clusters :
            LET members == result.high_level_clusters[t]
            IN  IF Len(members) = 1
                THEN /\ result.inner_steps[t] = <<>>
                     /\ DOMAIN result.subclusters[t] = {"0"}
                     /\ result.subclusters[t]["0"] = members
                ELSE /\ Len(members) >= 2
                     /\ result.inner_steps[t] = <<"submatrix", "linkage", "fcluster">>
                     /\ "0" \notin DOMAIN result.subclusters[t]

\* a returned result with a top-level cluster of one member beside one of
\* two or more members
C11_Witness ==
    /\ pc = "done"
    /\ result.status = "ok"
    /\ \E t, u \in DOMAIN result.high_level_clusters :
          /\ Len(result.high_level_clusters[t]) = 1
          /\ Len(result.high_level_clusters[u]) >= 2

\* the embeddings of the batch, one row per record
SemanticEmbeddings == [i \in 1..Len(conversations) |->
                          conversations[i].semantic_embedding]

\* C13: with the weights (1, 0, 0) every entry of the returned similarity
\* matrix equals, within the tolerance, the cosine similarity of the raw
\* semantic embeddings alone, whatever the attributes and the outcomes of
\* the records.
C13_SemanticWeightIsolates ==
    (pc = "done" /\ result.status = "ok" /\ weights = SemanticOnly) =>
        LET sim == result.similarity_matrix
            raw == CosineSimilarity(SemanticEmbeddings)
        IN  /\ Len(sim) = Len(conversations)
            /\ \A i, j \in 1..Len(sim) : Abs(sim[i][j] - raw[i][j]) <= SimTol

\* a result returned under the weights (1, 0, 0) for a batch with two records
\* of different attributes and different outcome encodings whose embeddings
\* are neither orthogonal nor parallel
C13_Witness ==
    /\ pc = "done"
    /\ result.status = "ok"
    /\ weights = SemanticOnly
    /\ \E i, j \in 1..Len(conversations) :
          /\ conversations[i].attributes # conversations[j].attributes
          /\ EncodeOutcome(conversations[i].outcome)
                # EncodeOutcome(conversations[j].outcome)
          /\ result.similarity_matrix[i][j] > SimTol
          /\ result.similarity_matrix[i][j] < One - SimTol

\* the position in the batch of the record with this id
PositionOf(id) == CHOOSE i \in 1..Len(conversations) : conversations[i].id = id

\* whether a list of ids holds them in the order of the batch
InInputOrder(ids) ==
    /\ \A x \in 1..Len(ids) : \E i \in 1..Len(conversations) :
            conversations[i].id = ids[x]
    /\ \A x, y \in 1..Len(ids) : x < y => PositionOf(ids[x]) < PositionOf(ids[y])

\* the places <<subcluster id, position>> of the subclusters of one cluster
PlacesIn(cluster_subclusters) ==
    UNION {{<<u, x>> : x \in 1..Len(cluster_subclusters[u])} :
              u \in DOMAIN cluster_subclusters}

\* C15: in a returned result high_level_clusters and subclusters have the
\* same top-level cluster ids; for each of them the lists of its subclusters
\* hold, taken together, exactly the ids of its high_level_clusters list,
\* each once; and every list, top-level or subcluster, holds its ids in
\* input order.
C15_StructuresAgree ==
    (pc = "done" /\ result.status = "ok") =>
        LET high == result.high_level_clusters
            sub == result.subclusters
        IN  /\ DOMAIN high = DOMAIN sub
            /\ \A t \in DOMAIN high :
                  /\ \A x \in 1..Len(high[t]) :
                        Cardinality({pl \in PlacesIn(sub[t]) :
                                        sub[t][pl[1]][pl[2]] = high[t][x]}) = 1
                  /\ \A pl \in PlacesIn(sub[t]) :
                        \E x \in 1..Len(high[t]) : high[t][x] = sub[t][pl[1]][pl[2]]
                  /\ InInputOrder(high[t])
                  /\ \A u \in DOMAIN sub[t] : InInputOrder(sub[t][u])

\* a returned result of two top-level clusters, one of them with a
\* subcluster of two members that are not neighbours in the batch
C15_Witness ==
    /\ pc = "done"
    /\ result.status = "ok"
    /\ Cardinality(DOMAIN result.high_level_clusters) = 2
    /\ \E t \in DOMAIN result.subclusters : \E u \in DOMAIN result.subclusters[t] :
          /\ Len(result.subclusters[t][u]) = 2
          /\ PositionOf(result.subclusters[t][u][2])
                > PositionOf(result.subclusters[t][u][1]) + 1

----------------------------------------------------------------------------
(* Properties of encode_outcome *)

\* whether s is word in some casing: letter by letter the small letter of
\* word or its capital
IsCasingOf(s, word) ==
    /\ Len(s) = Len(word)
    /\ \A i \in 1..Len(word) : s[i] \in {word[i], UpperChar(word[i])}

\* C12: encode_outcome returns 1.0 for any casing of "satisfied", 0.0 for any
\* casing of "unsatisfied", 0.5 for any casing of "unclear" and for every
\* other string, the empty one included, and raises for none.
C12_OutcomeCaseInsensitive ==
    pc = "done" =>
        /\ outcome_value.status = "ok"
        /\ outcome_value.value =
              CASE IsCasingOf(Label, Satisfied)   -> One
                [] IsCasingOf(Label, Unsatisfied) -> 0
                [] OTHER                          -> One \div 2

\* encode_outcome has returned 1.0 for a casing of "satisfied" with capitals
\* and small letters mixed
C12_Witness ==
    /\ pc = "done"
    /\ IsCasingOf(Label, Satisfied)
    /\ Label # Satisfied
    /\ Label # [i \in 1..Len(Satisfied) |-> UpperChar(Satisfied[i])]
    /\ outcome_value = [status |-> "ok", value |-> One]

----------------------------------------------------------------------------
(* Properties of the /cluster endpoint *)

\* C14: a request with fewer than 2 conversations is answered with status
\* 400 and detail "Need at least 2 conversations to cluster", without a call
\* of perform_clustering; the status of that answer is never 500.
C14_TooFewAnswered400 ==
    (pc = "done" /\ Len(conversations) < 2) =>
        /\ response.status_code = 400
        /\ response.detail = "Need at least 2 conversations to cluster"
        /\ response.status_code # 500
        /\ calls = 0
        /\ result = NoResult

====
